---- MODULE Spec2Model ----
(***************************************************************************)
(* Model of src/src/main.py: the job that fills the null                   *)
(* ambient_temperature of existing temperature_readings rows from the      *)
(* hourly weather series of each transformer's location.                   *)
(*                                                                         *)
(* Strings are tuples of one-character strings, so that split, endswith,   *)
(* slicing and strftime are computed character by character.  An instant   *)
(* is an hour 0..23 of one fixed day (2024-01-01, UTC).  An optional       *)
(* value (None / null) is a set with at most one element.                  *)
(***************************************************************************)
EXTENDS Integers, Sequences, FiniteSets, TLC

VARIABLES
    store,         \* temperature_readings: <<transformer_id, hour>> -> row
    storeFmt,      \* how the store serialises a timestamp in a response
    ext,           \* steps taken so far by the external row owner
    pc,            \* position of main()
    transformers,  \* main: transformers
    i,             \* main: position of the for loop over transformers
    wx,            \* main: the fetch_weather call of the current iteration
    df,            \* main: df of the current iteration
    existing_ts,   \* main: existing_ts of the current iteration
    all_dfs,       \* main: all_dfs
    final_df,      \* main: final_df, as a sequence of rows
    k,             \* main: position of the for loop over final_df
    update_count,  \* main: update_count
    raisedIn,      \* the call whose exception left main(), "" if none
    reported,      \* the total printed by line 180: {} or {n}
    weatherCalls,  \* history: transformer ids fetch_weather was called for
    queryCalls,    \* history: transformer ids a store query was issued for
    sets,          \* history: the two sets returned for each transformer
    writeLog,      \* history: one record per update_ambient_temperature call
    pin,           \* argument of the function applied on its own
    pout           \* its result

vars == <<store, storeFmt, ext, pc, transformers, i, wx, df, existing_ts,
          all_dfs, final_df, k, update_count, raisedIn, reported,
          weatherCalls, queryCalls, sets, writeLog, pin, pout>>

mainVars == <<store, storeFmt, ext, pc, transformers, i, wx, df, existing_ts,
              all_dfs, final_df, k, update_count, raisedIn, reported,
              weatherCalls, queryCalls, sets, writeLog>>

pureVars == <<pin, pout>>

-----------------------------------------------------------------------------
(* Bounds *)

MaxTransformers == 2
MaxHour == 2
MaxExt == 1
MaxStoreErrors == 1
FilterMaxHour == 4

-----------------------------------------------------------------------------
(* Strings *)

DigitChr == <<"0", "1", "2", "3", "4", "5", "6", "7", "8", "9">>

Digits == {DigitChr[n] : n \in 1..10}

DigitVal(c) == (CHOOSE n \in 1..10 : DigitChr[n] = c) - 1

TwoDigits(n) == <<DigitChr[(n \div 10) + 1], DigitChr[(n % 10) + 1]>>

DatePrefix == <<"2", "0", "2", "4", "-", "0", "1", "-", "0", "1", "T">>

\* strftime('%Y-%m-%dT%H:%M:%S') of the instant at hour h
WholeSecond(h) == DatePrefix \o TwoDigits(h) \o <<":", "0", "0", ":", "0", "0">>

PlusZero == <<"+", "0", "0", ":", "0", "0">>

Range(s) == {s[n] : n \in 1..Len(s)}

EndsWith(s, suffix) ==
    /\ Len(s) >= Len(suffix)
    /\ SubSeq(s, Len(s) - Len(suffix) + 1, Len(s)) = suffix

\* ts.split('.')[0]: the characters before the first '.'
SplitDotFirst(s) ==
    LET first == CHOOSE n \in 1..Len(s) :
                     s[n] = "." /\ \A m \in 1..(n - 1) : s[m] # "."
    IN  SubSeq(s, 1, first - 1)

\* s.replace('+00:00', 'Z') on a string holding '+00:00' at most at its end
ReplacePlusZero(s) ==
    IF EndsWith(s, PlusZero) THEN SubSeq(s, 1, Len(s) - 6) \o <<"Z">> ELSE s

normalize_timestamp_no_z(ts) ==
    IF "." \in Range(ts) THEN SplitDotFirst(ts)
    ELSE IF EndsWith(ts, PlusZero) THEN SubSeq(ts, 1, Len(ts) - 6) \o <<"Z">>
    ELSE ts

normalize_timestamp(ts) ==
    IF "." \in Range(ts) THEN SplitDotFirst(ts) \o <<"Z">>
    ELSE IF EndsWith(ts, PlusZero) THEN SubSeq(ts, 1, Len(ts) - 6) \o <<"Z">>
    ELSE ts

\* Timestamp.strftime('%Y-%m-%dT%H:%M:%SZ')
StrfTimeZ(h) == WholeSecond(h) \o <<"Z">>

\* Timestamp.isoformat() of a UTC-aware whole-second instant
IsoFormatUTC(h) == WholeSecond(h) \o PlusZero

\* the hour of a timestamp string 'YYYY-MM-DDTHH...' (pd.to_datetime, and the
\* store's reading of a filter value)
ParseHour(s) == DigitVal(s[12]) * 10 + DigitVal(s[13])

\* the shape YYYY-MM-DDTHH:MM:SSZ
Canonical(s) ==
    /\ Len(s) = 20
    /\ \A n \in {1, 2, 3, 4, 6, 7, 9, 10, 12, 13, 15, 16, 18, 19} : s[n] \in Digits
    /\ s[5] = "-" /\ s[8] = "-" /\ s[11] = "T"
    /\ s[14] = ":" /\ s[17] = ":" /\ s[20] = "Z"

-----------------------------------------------------------------------------
(* The store and the weather provider *)

TIds == 1..MaxTransformers

Hours == 0..MaxHour

Keys == TIds \X Hours

AbsentRow == [present |-> FALSE, amb |-> {}]

NullRow == [present |-> TRUE, amb |-> {}]

\* the serialisations of a timestamp a store response can carry:
\* fractional part, then suffix
NoFrac == <<>>

ZeroFrac == <<".", "0", "0", "0", "0", "0", "0">>

MicroFrac == <<".", "1", "2", "3", "4", "5", "6">>

Fracs == {NoFrac, ZeroFrac, MicroFrac}

Suffixes == {<<>>, <<"Z">>, PlusZero}

Formats == [frac : Fracs, suffix : Suffixes]

Serialize(h, fmt) == WholeSecond(h) \o fmt.frac \o fmt.suffix

\* the store main() runs against: rows are matched by whole-second instants
\* and a timestamptz value is serialised with its '+00:00' offset, the form
\* the elif of normalize_timestamp is written for
StoreFormats == {f \in Formats : f.frac = NoFrac /\ f.suffix = PlusZero}

\* temperature_2m of the provider at hour h
WeatherTemp(h) == h + 5

ExternalTemps == {40}

\* the provider's 'time' strings, 'YYYY-MM-DDTHH:MM'
ApiTime(h) == DatePrefix \o TwoDigits(h) \o <<":", "0", "0">>

HourlySeries(n) == [time |-> [h \in 1..n |-> ApiTime(h - 1)],
                    temperature_2m |-> [h \in 1..n |-> WeatherTemp(h - 1)]]

\* a response of requests.get: net = "error" is an exception of the call
Response(net, status, hasHourly, keys, n) ==
    [net |-> net, status |-> status, hasHourly |-> hasHourly, keys |-> keys,
     hourly |-> HourlySeries(n)]

HourlyKeys == {"time", "temperature_2m"}

Responses ==
    {Response("error", 0, FALSE, {}, 0),
     Response("ok", 500, FALSE, {}, 0),
     Response("ok", 200, FALSE, {}, 0),
     Response("ok", 200, TRUE, {}, 0),
     Response("ok", 200, TRUE, {"time"}, 0),
     Response("ok", 200, TRUE, {"temperature_2m"}, 0),
     Response("ok", 200, TRUE, HourlyKeys, 0),
     Response("ok", 200, TRUE, HourlyKeys, MaxHour + 1)}

-----------------------------------------------------------------------------
(* Data frames: columns held as sequences *)

BaseCols == {"time", "ambient_temperature"}

NoDf == [cols |-> {}, tz |-> "naive", time |-> <<>>,
         ambient_temperature |-> <<>>, iso_time |-> <<>>]

\* pd.DataFrame({...}) followed by pd.to_datetime on the 'time' column
MakeDf(times, temps) ==
    [cols |-> BaseCols, tz |-> "naive",
     time |-> [n \in 1..Len(times) |-> ParseHour(times[n])],
     ambient_temperature |-> temps, iso_time |-> <<>>]

RECURSIVE MaskSeq(_, _, _)
\* s[mask] for a boolean mask given as its set of true positions, from n on
MaskSeq(s, keep, n) ==
    IF n > Len(s) THEN <<>>
    ELSE (IF n \in keep THEN <<s[n]>> ELSE <<>>) \o MaskSeq(s, keep, n + 1)

fetch_weather(r) ==
    IF r.net = "error" THEN [result |-> "raised", df |-> NoDf]
    ELSE IF r.status # 200 THEN [result |-> "none", df |-> NoDf]
    ELSE IF ~r.hasHourly THEN [result |-> "raised", df |-> NoDf]
    ELSE IF r.keys = {} \/ "time" \notin r.keys \/ "temperature_2m" \notin r.keys
         THEN [result |-> "none", df |-> NoDf]
    ELSE [result |-> "df",
          df |-> MakeDf(r.hourly.time, r.hourly.temperature_2m)]

filter_to_update_union(d, existing_timestamps, missing_timestamps) ==
    LET iso == [n \in 1..Len(d.time) |-> StrfTimeZ(d.time[n])]
        d1 == [d EXCEPT !.tz = IF @ = "naive" THEN "UTC" ELSE @, !.cols = @ \cup {"iso_time"},
                        !.iso_time = iso]
        keep == {n \in 1..Len(iso) :
                     iso[n] \in (existing_timestamps \cup missing_timestamps)}
    IN  [df |-> d1,
         ret |-> [cols |-> d1.cols \ {"iso_time"}, tz |-> d1.tz,
                  time |-> MaskSeq(d1.time, keep, 1),
                  ambient_temperature |-> MaskSeq(d1.ambient_temperature, keep, 1),
                  iso_time |-> <<>>]]

\* df: the caller's frame after the call; ret: the frame returned
filter_to_update(d, existing_timestamps, missing_timestamps) ==
    LET iso == [n \in 1..Len(d.time) |-> StrfTimeZ(d.time[n])]
        d1 == [d EXCEPT !.tz = IF @ = "naive" THEN "UTC" ELSE @, !.cols = @ \cup {"iso_time"},
                        !.iso_time = iso]
        keep == {n \in 1..Len(iso) :
                     iso[n] \in (existing_timestamps \cap missing_timestamps)}
    IN  [df |-> d1,
         ret |-> [cols |-> d1.cols \ {"iso_time"}, tz |-> d1.tz,
                  time |-> MaskSeq(d1.time, keep, 1),
                  ambient_temperature |-> MaskSeq(d1.ambient_temperature, keep, 1),
                  iso_time |-> <<>>]]

-----------------------------------------------------------------------------
(* Store queries *)

batch_size == 50

\* iso_times of lines 32-35 and 54-57: every ts is localised, then isoformat,
\* then '+00:00' replaced by 'Z'
IsoTimes(timestamps) ==
    [n \in 1..Len(timestamps) |-> ReplacePlusZero(IsoFormatUTC(timestamps[n]))]

BatchStarts(n) == {b \in 0..n : b % batch_size = 0 /\ b < n}

Batch(isoTimes, b) ==
    SubSeq(isoTimes, b + 1,
           IF b + batch_size < Len(isoTimes) THEN b + batch_size ELSE Len(isoTimes))

\* the rows a select with eq(transformer_id) and in_(timestamp, batch) matches
MatchedHours(st, tid, batch, onlyNull) ==
    {h \in Hours : /\ \E n \in 1..Len(batch) : ParseHour(batch[n]) = h
                   /\ st[<<tid, h>>].present
                   /\ (onlyNull => st[<<tid, h>>].amb = {})}

QueryTimestamps(st, fmt, tid, timestamps, onlyNull) ==
    LET isoTimes == IsoTimes(timestamps)
    IN  UNION {{normalize_timestamp(Serialize(h, fmt)) :
                    h \in MatchedHours(st, tid, Batch(isoTimes, b), onlyNull)} :
               b \in BatchStarts(Len(isoTimes))}

fetch_existing_timestamps(st, fmt, tid, timestamps) ==
    QueryTimestamps(st, fmt, tid, timestamps, FALSE)

fetch_missing_temperature_readings(st, fmt, tid, timestamps) ==
    QueryTimestamps(st, fmt, tid, timestamps, TRUE)

-----------------------------------------------------------------------------
(* Transformer records *)

\* i.get("location", {}): {} when absent, null or empty, else the dict, whose
\* lat and lng are each None or a number
Locations ==
    {{},
     {[lat |-> {10}, lng |-> {}]},
     {[lat |-> {}, lng |-> {20}]},
     {[lat |-> {10}, lng |-> {20}]}}

\* the transformers table: ids are the primary key
TransformerLists ==
    UNION {{[j \in 1..n |-> [id |-> j, location |-> locs[j]]] :
                locs \in [1..n -> Locations]} : n \in 0..MaxTransformers}

LocationOkLatOnly(location) ==
    /\ location # {}
    /\ \A l \in location : l.lat # {}

\* lines 136-143: neither continue is taken
LocationOk(location) ==
    /\ location # {}
    /\ \A l \in location : l.lat # {} /\ l.lng # {}

NoSets == [queried |-> FALSE, existing |-> {}, missing |-> {}]

NoCall == [called |-> FALSE, response |-> Response("ok", 0, FALSE, {}, 0),
           result |-> "none"]

-----------------------------------------------------------------------------
(* main() *)

RECURSIVE ConcatRows(_, _)
\* pd.concat(all_dfs, ignore_index=True) from frame n on, as a sequence of rows
ConcatRows(dfs, n) ==
    IF n > Len(dfs) THEN <<>>
    ELSE [m \in 1..Len(dfs[n].time) |->
              [transformer_id |-> dfs[n].transformer_id,
               time |-> dfs[n].time[m],
               ambient_temperature |-> dfs[n].ambient_temperature[m]]]
         \o ConcatRows(dfs, n + 1)

\* lines 104-121 against store st: the store after the call and the value
\* returned; the update filters on transformer_id and timestamp only
update_ambient_temperature(st, row) ==
    LET ts_str == StrfTimeZ(row.time)
        key == <<row.transformer_id, ParseHour(ts_str)>>
        matched == key \in DOMAIN st /\ st[key].present
    IN  [ts_str |-> ts_str,
         matched |-> matched,
         store |-> IF matched
                   THEN [st EXCEPT ![key].amb = {row.ambient_temperature}]
                   ELSE st,
         ret |-> matched]

InitStore == [key \in Keys |-> IF key[2] < MaxHour THEN NullRow ELSE AbsentRow]

InitMain ==
    /\ store = InitStore
    /\ ext = 0
    /\ pc = "start"
    /\ transformers = <<>>
    /\ i = 1
    /\ wx = NoCall
    /\ df = NoDf
    /\ existing_ts = {}
    /\ all_dfs = <<>>
    /\ final_df = <<>>
    /\ k = 1
    /\ update_count = 0
    /\ raisedIn = ""
    /\ reported = {}
    /\ weatherCalls = {}
    /\ queryCalls = {}
    /\ sets = [t \in TIds |-> NoSets]
    /\ writeLog = <<>>

Init ==
    /\ InitMain
    /\ storeFmt \in StoreFormats
    /\ pin = <<>>
    /\ pout = <<>>

\* an exception leaves main(): nothing after the raising call runs
Raise(call) ==
    /\ pc' = "done"
    /\ raisedIn' = call

\* lines 128-131
FetchTransformers ==
    /\ pc = "start"
    /\ \/ /\ Raise("fetch_transformers")
          /\ UNCHANGED transformers
       \/ \E data \in {<<>>} \cup TransformerLists :
              /\ transformers' = data
              /\ pc' = IF data = <<>> THEN "done" ELSE "loop"
              /\ UNCHANGED raisedIn
    /\ UNCHANGED <<store, storeFmt, ext, i, wx, df, existing_ts, all_dfs,
                   final_df, k, update_count, reported, weatherCalls,
                   queryCalls, sets, writeLog, pureVars>>

\* lines 133-143: one of the two continues is taken
SkipLocation ==
    /\ pc = "loop"
    /\ i <= Len(transformers)
    /\ ~LocationOk(transformers[i].location)
    /\ i' = i + 1
    /\ UNCHANGED <<store, storeFmt, ext, pc, transformers, wx, df, existing_ts,
                   all_dfs, final_df, k, update_count, raisedIn, reported,
                   weatherCalls, queryCalls, sets, writeLog, pureVars>>

\* line 145: the call of fetch_weather and what it gives back
CallWeather ==
    /\ pc = "loop"
    /\ i <= Len(transformers)
    /\ LocationOk(transformers[i].location)
    /\ \E r \in Responses :
           LET w == fetch_weather(r)
           IN  /\ wx' = [called |-> TRUE, response |-> r, result |-> w.result]
               /\ IF w.result = "raised"
                  THEN Raise("fetch_weather") /\ UNCHANGED df
                  ELSE /\ pc' = "weather"
                       /\ df' = w.df
                       /\ UNCHANGED raisedIn
    /\ weatherCalls' = weatherCalls \cup {transformers[i].id}
    /\ UNCHANGED <<store, storeFmt, ext, transformers, i, existing_ts, all_dfs,
                   final_df, k, update_count, reported, queryCalls, sets,
                   writeLog, pureVars>>

\* lines 146-147
CheckWeather ==
    /\ pc = "weather"
    /\ IF wx.result = "none" \/ Len(df.time) = 0
       THEN pc' = "loop" /\ i' = i + 1
       ELSE pc' = "existing" /\ UNCHANGED i
    /\ wx' = NoCall
    /\ UNCHANGED <<store, storeFmt, ext, transformers, df, existing_ts, all_dfs,
                   final_df, k, update_count, raisedIn, reported, weatherCalls,
                   queryCalls, sets, writeLog, pureVars>>

\* line 149
FetchExisting ==
    /\ pc = "existing"
    /\ queryCalls' = queryCalls \cup {transformers[i].id}
    /\ \/ /\ Raise("fetch_existing_timestamps")
          /\ UNCHANGED <<existing_ts, sets>>
       \/ LET e == fetch_existing_timestamps(store, storeFmt,
                                             transformers[i].id, df.time)
          IN  /\ existing_ts' = e
              /\ sets' = [sets EXCEPT ![transformers[i].id].existing = e]
              /\ pc' = "missing"
              /\ UNCHANGED raisedIn
    /\ UNCHANGED <<store, storeFmt, ext, transformers, i, wx, df, all_dfs,
                   final_df, k, update_count, reported, weatherCalls, writeLog,
                   pureVars>>

\* lines 150-164
FetchMissingAndFilter ==
    /\ pc = "missing"
    /\ \/ /\ Raise("fetch_missing_temperature_readings")
          /\ UNCHANGED <<i, df, all_dfs, sets>>
       \/ LET tid == transformers[i].id
              missing_ts == fetch_missing_temperature_readings(
                                store, storeFmt, tid, df.time)
              f == filter_to_update(df, existing_ts, missing_ts)
          IN  /\ sets' = [sets EXCEPT ![tid].queried = TRUE,
                                      ![tid].missing = missing_ts]
              /\ df' = f.df
              /\ all_dfs' =
                     IF Len(f.ret.time) = 0 THEN all_dfs
                     ELSE Append(all_dfs,
                                 [transformer_id |-> tid, time |-> f.ret.time,
                                  ambient_temperature |->
                                      f.ret.ambient_temperature])
              /\ i' = i + 1
              /\ pc' = "loop"
              /\ UNCHANGED raisedIn
    /\ UNCHANGED <<store, storeFmt, ext, transformers, wx, existing_ts,
                   final_df, k, update_count, reported, weatherCalls,
                   queryCalls, writeLog, pureVars>>

\* lines 166-172
EndLoop ==
    /\ pc = "loop"
    /\ i > Len(transformers)
    /\ IF all_dfs = <<>>
       THEN pc' = "done" /\ UNCHANGED final_df
       ELSE pc' = "write" /\ final_df' = ConcatRows(all_dfs, 1)
    /\ UNCHANGED <<store, storeFmt, ext, transformers, i, wx, df, existing_ts,
                   all_dfs, k, update_count, raisedIn, reported, weatherCalls,
                   queryCalls, sets, writeLog, pureVars>>

\* the store calls of the write phase that raised so far
StoreErrors == Cardinality({n \in 1..Len(writeLog) : writeLog[n].error})

\* whether the store call of the next update may raise
ErrorChoices == IF StoreErrors < MaxStoreErrors THEN BOOLEAN ELSE {FALSE}

\* what one update_ambient_temperature call did; before is the row it met
LogEntry(row, u, error) ==
    [transformer_id |-> row.transformer_id,
     time |-> row.time,
     value |-> row.ambient_temperature,
     before |-> store[<<row.transformer_id, row.time>>],
     error |-> error,
     result |-> IF error THEN "raised" ELSE IF u.ret THEN "updated" ELSE "failed"]

WriteRowStopOnFailure ==
    /\ pc = "write"
    /\ k <= Len(final_df)
    /\ LET row == final_df[k]
           u == update_ambient_temperature(store, row)
       IN  \E error \in ErrorChoices :
               /\ writeLog' = Append(writeLog, LogEntry(row, u, error))
               /\ store' = IF error THEN store ELSE u.store
               /\ update_count' =
                      IF ~error /\ u.ret THEN update_count + 1 ELSE update_count
               /\ k' = IF error \/ ~u.ret THEN Len(final_df) + 1 ELSE k + 1
    /\ UNCHANGED <<storeFmt, ext, pc, transformers, i, wx, df, existing_ts,
                   all_dfs, final_df, raisedIn, reported, weatherCalls,
                   queryCalls, sets, pureVars>>

\* lines 173-179: one pass of the loop; error is an exception of the store call
WriteRow ==
    /\ pc = "write"
    /\ k <= Len(final_df)
    /\ LET row == final_df[k]
           u == update_ambient_temperature(store, row)
       IN  \E error \in ErrorChoices :
               /\ writeLog' = Append(writeLog, LogEntry(row, u, error))
               /\ store' = IF error THEN store ELSE u.store
               /\ update_count' =
                      IF ~error /\ u.ret THEN update_count + 1 ELSE update_count
    /\ k' = k + 1
    /\ UNCHANGED <<storeFmt, ext, pc, transformers, i, wx, df, existing_ts,
                   all_dfs, final_df, raisedIn, reported, weatherCalls,
                   queryCalls, sets, pureVars>>

\* line 180
Report ==
    /\ pc = "write"
    /\ k > Len(final_df)
    /\ reported' = {update_count}
    /\ pc' = "done"
    /\ UNCHANGED <<store, storeFmt, ext, transformers, i, wx, df, existing_ts,
                   all_dfs, final_df, k, update_count, raisedIn, weatherCalls,
                   queryCalls, sets, writeLog, pureVars>>

-----------------------------------------------------------------------------
(* The external owner of the rows of temperature_readings *)

\* main() is about to access the row at key: the two selects read every row
\* of the current transformer, an update touches the row of final_df[k]
NextAccess(key) ==
    \/ /\ pc \in {"existing", "missing"}
       /\ key[1] = transformers[i].id
    \/ /\ pc = "write"
       /\ k <= Len(final_df)
       /\ key = <<final_df[k].transformer_id, final_df[k].time>>

\* A step of the owner on one row.  It is taken right before main()'s next
\* access of that row: taken earlier it commutes with every step of main() in
\* between, none of which reads or writes the row, and on a row main() does
\* not access again it changes nothing main() does.
ExtStep(key, row) ==
    /\ NextAccess(key)
    /\ ext < MaxExt
    /\ ext' = ext + 1
    /\ store' = [store EXCEPT ![key] = row]
    /\ UNCHANGED <<storeFmt, pc, transformers, i, wx, df, existing_ts, all_dfs,
                   final_df, k, update_count, raisedIn, reported, weatherCalls,
                   queryCalls, sets, writeLog, pureVars>>

ExtCreate ==
    \E key \in Keys : ~store[key].present /\ ExtStep(key, NullRow)

ExtDelete ==
    \E key \in Keys : store[key].present /\ ExtStep(key, AbsentRow)

ExtPopulate ==
    \E key \in Keys, v \in ExternalTemps :
        store[key].present /\ ExtStep(key, [present |-> TRUE, amb |-> {v}])

Next ==
    \/ FetchTransformers
    \/ SkipLocation
    \/ CallWeather
    \/ CheckWeather
    \/ FetchExisting
    \/ FetchMissingAndFilter
    \/ EndLoop
    \/ WriteRow
    \/ Report
    \/ ExtCreate
    \/ ExtDelete
    \/ ExtPopulate

Spec == Init /\ [][Next]_vars

-----------------------------------------------------------------------------
(* normalize_timestamp on its own: every serialisation of every hour *)

NormInputs ==
    {[hour |-> h, fmt |-> fmt, ts |-> Serialize(h, fmt)] :
         h \in 0..23, fmt \in Formats}

InitNorm ==
    /\ InitMain
    /\ storeFmt = [frac |-> NoFrac, suffix |-> PlusZero]
    /\ pin \in NormInputs
    /\ pout = <<>>

\* the store returns pin.ts for a row; the weather series holds the sample of
\* the same hour; the row's timestamp is in both sets
ApplyNormalize ==
    /\ pout = <<>>
    /\ LET n == normalize_timestamp(pin.ts)
           sample == MakeDf(<<ApiTime(pin.hour)>>, <<WeatherTemp(pin.hour)>>)
       IN  pout' = [norm |-> n,
                    selected |-> filter_to_update(sample, {n}, {n}).ret.time]
    /\ UNCHANGED <<mainVars, pin>>

NextNorm == ApplyNormalize

SpecNorm == InitNorm /\ [][NextNorm]_vars

-----------------------------------------------------------------------------
(* filter_to_update on its own *)

FilterHours == 0..FilterMaxHour

RECURSIVE Ascending(_, _)
\* the hours of set hs from hour h on, in ascending order
Ascending(hs, h) ==
    IF h > FilterMaxHour THEN <<>>
    ELSE (IF h \in hs THEN <<h>> ELSE <<>>) \o Ascending(hs, h + 1)

\* hourly series with gaps, and the pairs (repeated and descending hours)
FilterSeries ==
    {Ascending(hs, 0) : hs \in SUBSET FilterHours} \cup [1..2 -> FilterHours]

FilterFrame(times, tz) ==
    [cols |-> BaseCols, tz |-> tz, time |-> times,
     ambient_temperature |-> [n \in 1..Len(times) |-> n + 4],
     iso_time |-> <<>>]

FilterSets == {{StrfTimeZ(h) : h \in hs} : hs \in SUBSET FilterHours}

InitFilter ==
    /\ InitMain
    /\ storeFmt = [frac |-> NoFrac, suffix |-> PlusZero]
    /\ \E times \in FilterSeries, tz \in {"naive", "UTC"},
          e \in FilterSets, m \in FilterSets :
           pin = [df |-> FilterFrame(times, tz), existing |-> e, missing |-> m]
    /\ pout = <<>>

ApplyFilter ==
    /\ pout = <<>>
    /\ pout' = filter_to_update(pin.df, pin.existing, pin.missing)
    /\ UNCHANGED <<mainVars, pin>>

NextFilter == ApplyFilter

SpecFilter == InitFilter /\ [][NextFilter]_vars

-----------------------------------------------------------------------------
(* Claims *)

PerTransformerCalls ==
    {"fetch_weather", "fetch_existing_timestamps",
     "fetch_missing_temperature_readings"}

\* the timestamp strings an update was issued for, for transformer t
IssuedFor(t) ==
    {StrfTimeZ(writeLog[n].time) :
         n \in {m \in 1..Len(writeLog) : writeLog[m].transformer_id = t}}

Updated == {n \in 1..Len(writeLog) : writeLog[n].result = "updated"}

\* C1: when a run of main() has ended, an update was issued for (X, T) if and
\* only if T is in both sets fetched for X in that run.
C1_WriteIffInBothSets ==
    pc = "done" =>
        \A t \in TIds : IssuedFor(t) = sets[t].existing \cap sets[t].missing

\* C2: every update that changed a row met a row that existed and whose
\* ambient_temperature was null at that moment; no populated value is
\* overwritten and no row is created.
C2_NeverOverwrites ==
    \A n \in 1..Len(writeLog) :
        writeLog[n].result = "updated" =>
            writeLog[n].before.present /\ writeLog[n].before.amb = {}

\* C3: a failure of the weather fetch or of a store query for one transformer
\* does not end the run: every transformer is still visited and every
\* reconciled row still gets its write.
C3_FailureSkipsTransformer ==
    (pc = "done" /\ raisedIn \in PerTransformerCalls) =>
        /\ i > Len(transformers)
        /\ Len(writeLog) = Len(ConcatRows(all_dfs, 1))

BadResponse(r) ==
    /\ r.net = "ok"
    /\ \/ r.status # 200
       \/ ~r.hasHourly
       \/ "time" \notin r.keys
       \/ "temperature_2m" \notin r.keys

\* C4: fetch_weather returns None, and does not raise, for every response
\* that is not a success or lacks hourly, time or temperature_2m.
C4_BadResponseGivesNone ==
    (wx.called /\ BadResponse(wx.response)) => wx.result = "none"

\* C5: in the write phase every row of final_df gets exactly one write
\* attempt, in order, whatever the earlier attempts did; an attempt that
\* matches no row returns failure; the total is printed only after the last
\* row was attempted.
C5_WriteLoopContinues ==
    /\ Len(writeLog) = k - 1
    /\ Len(writeLog) <= Len(final_df)
    /\ \A n \in 1..Len(writeLog) :
           /\ writeLog[n].transformer_id = final_df[n].transformer_id
           /\ writeLog[n].time = final_df[n].time
           /\ (~writeLog[n].error /\ ~writeLog[n].before.present)
                  => writeLog[n].result = "failed"
    /\ reported # {} => Len(writeLog) = Len(final_df)

\* C5 witness: a run that printed its total after one write matched no row and
\* another raised, each followed by a later attempt.
C5_Witness ==
    /\ reported # {}
    /\ \E n \in 1..Len(writeLog) :
           /\ writeLog[n].result = "failed"
           /\ ~writeLog[n].before.present
           /\ n < Len(writeLog)
    /\ \E n \in 1..Len(writeLog) :
           writeLog[n].result = "raised" /\ n < Len(writeLog)

\* the n-th smallest element of a set of positions
NthOf(ps, n) == CHOOSE q \in ps : Cardinality({r \in ps : r <= q}) = n

\* C6: the frame returned holds exactly the samples whose strftime timestamp
\* is in both sets, in the order of the input; the samples of the spec's
\* example (existing A,B,C; missing B,C,D; samples A..E) are those at B and C.
C6_FilterExactIntersection ==
    pout # <<>> =>
        LET inp == pin.df
            both == pin.existing \cap pin.missing
            sel == {n \in 1..Len(inp.time) : StrfTimeZ(inp.time[n]) \in both}
            out == pout.ret
        IN  /\ Len(out.time) = Cardinality(sel)
            /\ Len(out.ambient_temperature) = Cardinality(sel)
            /\ \A j \in 1..Len(out.time) :
                   /\ out.time[j] = inp.time[NthOf(sel, j)]
                   /\ out.ambient_temperature[j] =
                          inp.ambient_temperature[NthOf(sel, j)]
            /\ out.cols = BaseCols
            /\ (/\ inp.time = <<0, 1, 2, 3, 4>>
                /\ pin.existing = {StrfTimeZ(0), StrfTimeZ(1), StrfTimeZ(2)}
                /\ pin.missing = {StrfTimeZ(1), StrfTimeZ(2), StrfTimeZ(3)})
                   => out.time = <<1, 2>> /\ out.ambient_temperature = <<6, 7>>

\* C6 witness: the spec's example, filtered
C6_Witness ==
    /\ pout # <<>>
    /\ pin.df.time = <<0, 1, 2, 3, 4>>
    /\ pin.existing = {StrfTimeZ(0), StrfTimeZ(1), StrfTimeZ(2)}
    /\ pin.missing = {StrfTimeZ(1), StrfTimeZ(2), StrfTimeZ(3)}
    /\ pout.ret.time = <<1, 2>>

\* C7 as stated: every serialisation the store can return, a whole-second one
\* with no suffix included, is normalised to YYYY-MM-DDTHH:MM:SSZ and selects
\* the sample of its hour.
C7_EveryFormCanonical ==
    pout # <<>> =>
        /\ Canonical(pout.norm)
        /\ pout.selected = <<pin.hour>>

\* C7 amended: a timestamp with a fractional part (any of the three
\* suffixes), or with a '+00:00' or 'Z' suffix, is normalised to the
\* whole-second Z form of its hour and selects the sample of that hour.
C7_SuffixedOrFractionalCanonical ==
    (pout # <<>> /\ (pin.fmt.frac # NoFrac \/ pin.fmt.suffix # <<>>)) =>
        /\ Canonical(pout.norm)
        /\ pout.norm = StrfTimeZ(pin.hour)
        /\ pout.selected = <<pin.hour>>

\* C7 witness: microseconds and '+00:00', at an hour of two digits
C7_Witness ==
    /\ pout # <<>>
    /\ pin.hour = 13
    /\ pin.fmt = [frac |-> MicroFrac, suffix |-> PlusZero]
    /\ pout.norm = StrfTimeZ(13)
    /\ pout.selected = <<13>>

\* a record with no location, or whose location lacks lat or lng
LacksLocation(t) ==
    \/ t.location = {}
    \/ \E l \in t.location : l.lat = {} \/ l.lng = {}

\* C8: a transformer that lacks a location triggers no weather fetch, no store
\* query and no write, and a run that ends without an exception has fetched
\* the weather of every transformer that has a location.
C8_NoLocationNoWork ==
    \A j \in 1..Len(transformers) :
        LET t == transformers[j]
        IN  /\ LacksLocation(t) =>
                   /\ t.id \notin weatherCalls
                   /\ t.id \notin queryCalls
                   /\ \A n \in 1..Len(writeLog) :
                          writeLog[n].transformer_id # t.id
            /\ (~LacksLocation(t) /\ pc = "done" /\ raisedIn = "") =>
                   t.id \in weatherCalls

\* C8 witness: the first transformer lacks lng and was skipped, the second was
\* written
C8_Witness ==
    /\ pc = "done"
    /\ reported # {}
    /\ Len(transformers) = 2
    /\ transformers[1].location = {[lat |-> {10}, lng |-> {}]}
    /\ \E n \in 1..Len(writeLog) :
           writeLog[n].transformer_id = 2 /\ writeLog[n].result = "updated"

\* C9: every run that loaded a non-empty transformer list ends with a printed
\* total, equal to the number of updates the store confirmed.
C9_AlwaysReportsTotal ==
    (pc = "done" /\ transformers # <<>>) =>
        reported = {Cardinality(Updated)}

\* C10: the frame passed to filter_to_update is the same after the call.
C10_FrameUnchanged ==
    pout # <<>> =>
        /\ pout.df.cols = pin.df.cols
        /\ pout.df.tz = pin.df.tz
        /\ pout.df.time = pin.df.time

====
